---- MODULE Spec2Model ----
(***************************************************************************)
(* Conversation-memory store of the "ai" tool: the GroupSets union-find    *)
(* (src/ai/src/memory/user_groups.rs) and the Memory store over its        *)
(* SQLite file (src/ai/src/memory.rs).                                     *)
(*                                                                         *)
(* Users are the numbers 1..MaxUsers; they stand for user names in         *)
(* ascending lexicographic order, so that sorting is meaningful.           *)
(* Time is counted in minutes.                                             *)
(***************************************************************************)
EXTENDS Integers, Sequences, FiniteSets, TLC

\* ---------------------------------------------------------------- bounds
MaxUsers == 3
MaxGroupId == 4
MaxClock == 960
MaxFmUsers == 2
MaxFmGroupId == 1
MaxEntries == 1
MaxStoreUsers == 2
MaxLoadUsers == 4
MaxLoadEntries == 3
MaxExcess == 5
MaxHistClock == 12
MaxHistMessage == 4
MaxJoinList == 2
\* usize is 64 bits wide; the model scales it down to UsizeBits bits
UsizeBits == 3

\* constants.rs, in minutes
USER_GROUP_RETENTION == 16 * 60
MEMORY_RETENTION == 10
MEMORY_MAX_MESSAGES == 20

\* usize::MAX
USIZE_MAX == 2 ^ UsizeBits - 1

Users == 1..MaxUsers
StoreUsers == 1..MaxStoreUsers
\* the clock advances by half a retention window at a time
TickStep == USER_GROUP_RETENTION \div 2
Times == {k * TickStep : k \in 0..(MaxClock \div TickStep)}

Receivers == {"chanA", "chanB"}
Senders == {"user", "assistant"}
Procs == {"inv1", "inv2"}

VARIABLES
    group_set,     \* the GroupSets under test (tests.rs fuzz_operation_sequences)
    maps,          \* the input of from_maps (tests.rs arbitrary_maps)
    clock,         \* OffsetDateTime::now_utc(), in minutes
    panicked,      \* an unwrap() on None aborted the run
    last_op,       \* the operation applied last
    db_group_sets, \* table group_sets of ai_memory.db: the committed rows
    db_memory,     \* table memory of ai_memory.db, in insertion order
    lock,          \* the invocation holding the write lock of the file, or "none"
    pc,            \* per invocation: "off", "none", "ready", "commit", "panicked"
    joined_users,  \* per invocation: Memory.joined_users
    entries,       \* per invocation: Memory.entries
    tx             \* per invocation: the group_sets of its open transaction

gsvars == <<group_set, maps, panicked>>
memvars == <<db_group_sets, db_memory, lock, pc, joined_users, entries, tx>>
vars == <<group_set, maps, clock, panicked, last_op, db_group_sets, db_memory,
          lock, pc, joined_users, entries, tx>>

\* ------------------------------------------------------- map helpers
Restrict(f, S) == [x \in S |-> f[x]]

Insert(f, k, v) == (k :> v) @@ f

Remove(f, k) == Restrict(f, DOMAIN f \ {k})

MaxOf(S) == CHOOSE x \in S : \A y \in S : y <= x

\* ------------------------------------------------------- GroupInfo
GroupInfo_new(user, now) == [members |-> {user}, last_modified |-> now]

merge(self, other, now) ==
    [members |-> self.members \cup other.members, last_modified |-> now]

\* ------------------------------------------------------- GroupSets
GroupSets_new ==
    [user_to_group |-> <<>>, groups |-> <<>>, next_group_id |-> 0]

find_group_some(g, user) == user \in DOMAIN g.user_to_group

find_group(g, user) == g.user_to_group[user]

add_user(g, user, now) ==
    IF user \in DOMAIN g.user_to_group
    THEN g
    ELSE [user_to_group |-> Insert(g.user_to_group, user, g.next_group_id),
          groups |-> Insert(g.groups, g.next_group_id, GroupInfo_new(user, now)),
          next_group_id |-> g.next_group_id + 1]

\* union with only user2 moved into the group of user1, not all of group2
union_moves_one_member(g0, user1, user2, now) ==
    LET g == add_user(add_user(g0, user1, now), user2, now)
        group1_id == find_group(g, user1)
        group2_id == find_group(g, user2)
    IN  IF group1_id = group2_id
        THEN [ok |-> TRUE, gs |-> g]
        ELSE LET left == g.groups[group2_id].members \ {user2}
                 groups1 == IF left = {}
                            THEN Remove(g.groups, group2_id)
                            ELSE [g.groups EXCEPT ![group2_id].members = left]
             IN  [ok |-> TRUE,
                  gs |-> [g EXCEPT
                            !.user_to_group = [@ EXCEPT ![user2] = group1_id],
                            !.groups = [groups1 EXCEPT ![group1_id] =
                                          merge(groups1[group1_id],
                                                GroupInfo_new(user2, now), now)]]]

\* union whose merged group keeps the last_modified of group1
union_without_refresh(g0, user1, user2, now) ==
    LET g == add_user(add_user(g0, user1, now), user2, now)
        group1_id == find_group(g, user1)
        group2_id == find_group(g, user2)
    IN  IF group1_id = group2_id
        THEN [ok |-> TRUE, gs |-> g]
        ELSE IF group2_id \notin DOMAIN g.groups \/ group1_id \notin DOMAIN g.groups
        THEN [ok |-> FALSE, gs |-> g]
        ELSE LET group2 == g.groups[group2_id]
                 groups1 == Remove(g.groups, group2_id)
                 utg == [u \in DOMAIN g.user_to_group \cup group2.members |->
                            IF u \in group2.members THEN group1_id
                            ELSE g.user_to_group[u]]
             IN  [ok |-> TRUE,
                  gs |-> [g EXCEPT
                            !.user_to_group = utg,
                            !.groups = [groups1 EXCEPT ![group1_id].members =
                                          @ \cup group2.members]]]

\* union that refreshes last_modified also when both users share a group
union_refreshes_same_group(g0, user1, user2, now) ==
    LET g == add_user(add_user(g0, user1, now), user2, now)
        group1_id == find_group(g, user1)
        group2_id == find_group(g, user2)
    IN  IF group1_id = group2_id
        THEN [ok |-> TRUE,
              gs |-> IF group1_id \in DOMAIN g.groups
                     THEN [g EXCEPT !.groups[group1_id].last_modified = now]
                     ELSE g]
        ELSE IF group2_id \notin DOMAIN g.groups \/ group1_id \notin DOMAIN g.groups
        THEN [ok |-> FALSE, gs |-> g]
        ELSE LET group2 == g.groups[group2_id]
                 groups1 == Remove(g.groups, group2_id)
                 utg == [u \in DOMAIN g.user_to_group \cup group2.members |->
                            IF u \in group2.members THEN group1_id
                            ELSE g.user_to_group[u]]
             IN  [ok |-> TRUE,
                  gs |-> [g EXCEPT
                            !.user_to_group = utg,
                            !.groups = [groups1 EXCEPT ![group1_id] =
                                          merge(groups1[group1_id], group2, now)]]]

\* union returns [ok, gs]: ok = FALSE when one of its unwrap() calls hits None
union(g0, user1, user2, now) ==
    LET g == add_user(add_user(g0, user1, now), user2, now)
        group1_id == find_group(g, user1)
        group2_id == find_group(g, user2)
    IN  IF group1_id = group2_id
        THEN [ok |-> TRUE, gs |-> g]
        ELSE IF group2_id \notin DOMAIN g.groups
        THEN [ok |-> FALSE, gs |-> g]
        ELSE LET group2 == g.groups[group2_id]
                 groups1 == Remove(g.groups, group2_id)
                 utg == [u \in DOMAIN g.user_to_group \cup group2.members |->
                            IF u \in group2.members THEN group1_id
                            ELSE g.user_to_group[u]]
             IN  IF group1_id \notin DOMAIN groups1
                 THEN [ok |-> FALSE,
                       gs |-> [g EXCEPT !.groups = groups1, !.user_to_group = utg]]
                 ELSE [ok |-> TRUE,
                       gs |-> [g EXCEPT
                                 !.user_to_group = utg,
                                 !.groups = [groups1 EXCEPT ![group1_id] =
                                               merge(groups1[group1_id], group2, now)]]]

\* remove_user without the removal of the emptied group
remove_user_keeps_empty_group(g, user, now) ==
    IF ~find_group_some(g, user)
    THEN g
    ELSE LET group_id == find_group(g, user)
             groups1 ==
                 IF group_id \in DOMAIN g.groups
                 THEN [g.groups EXCEPT ![group_id] =
                          [members |-> g.groups[group_id].members \ {user},
                           last_modified |-> now]]
                 ELSE g.groups
             g1 == [g EXCEPT !.groups = groups1,
                             !.user_to_group = Remove(g.user_to_group, user)]
         IN  add_user(g1, user, now)

\* remove_user without group_info.members.remove(user)
remove_user_leaves_member(g, user, now) ==
    IF ~find_group_some(g, user)
    THEN g
    ELSE LET group_id == find_group(g, user)
             groups1 ==
                 IF group_id \in DOMAIN g.groups
                 THEN [g.groups EXCEPT ![group_id].last_modified = now]
                 ELSE g.groups
             g1 == [g EXCEPT !.groups = groups1,
                             !.user_to_group = Remove(g.user_to_group, user)]
         IN  add_user(g1, user, now)

remove_user(g, user, now) ==
    IF ~find_group_some(g, user)
    THEN g
    ELSE LET group_id == find_group(g, user)
             groups1 ==
                 IF group_id \in DOMAIN g.groups
                 THEN LET left == g.groups[group_id].members \ {user}
                      IN  IF left = {}
                          THEN Remove(g.groups, group_id)
                          ELSE [g.groups EXCEPT ![group_id] =
                                   [members |-> left, last_modified |-> now]]
                 ELSE g.groups
             g1 == [g EXCEPT !.groups = groups1,
                             !.user_to_group = Remove(g.user_to_group, user)]
         IN  add_user(g1, user, now)

\* expire_old_groups without the retain on the index (lines 93-94)
expire_old_groups_keeps_index(g, now) ==
    LET oldest_allowed == now - USER_GROUP_RETENTION
        kept == {id \in DOMAIN g.groups : g.groups[id].last_modified > oldest_allowed}
        groups1 == Restrict(g.groups, kept)
        plural == {id \in kept : Cardinality(groups1[id].members) > 1}
    IN  [g EXCEPT !.groups = Restrict(groups1, plural)]

expire_old_groups(g, now) ==
    LET oldest_allowed == now - USER_GROUP_RETENTION
        kept == {id \in DOMAIN g.groups : g.groups[id].last_modified > oldest_allowed}
        groups1 == Restrict(g.groups, kept)
        utg == Restrict(g.user_to_group,
                        {u \in DOMAIN g.user_to_group : g.user_to_group[u] \in kept})
        plural == {id \in kept : Cardinality(groups1[id].members) > 1}
    IN  [g EXCEPT !.groups = Restrict(groups1, plural), !.user_to_group = utg]

\* The permutations of a finite set: the orders in which a HashMap or HashSet
\* may be iterated
Perms(S) ==
    {s \in [1..Cardinality(S) -> S] : \A i, j \in 1..Cardinality(S) : s[i] = s[j] => i = j}

\* from_maps, lines 57-65: the loop over the groups in iteration order `order`
RECURSIVE fix_index(_, _, _, _)
fix_index(user_to_group, groups, order, i) ==
    IF i > Len(order)
    THEN user_to_group
    ELSE LET group_id == order[i]
             members == groups[group_id].members
             utg == [u \in DOMAIN user_to_group \cup members |->
                        IF u \in members /\ (u \notin DOMAIN user_to_group
                                              \/ user_to_group[u] # group_id)
                        THEN group_id
                        ELSE user_to_group[u]]
         IN  fix_index(utg, groups, order, i + 1)

\* from_maps with the last retain (line 78) dropping one-member groups as well
from_maps_drops_singletons(user_to_group0, groups0, order) ==
    LET utg1 == Restrict(user_to_group0,
                    {u \in DOMAIN user_to_group0 : user_to_group0[u] \in DOMAIN groups0})
        users_in_groups == UNION {groups0[id].members : id \in DOMAIN groups0}
        utg2 == fix_index(utg1, groups0, order, 1)
        utg3 == Restrict(utg2, DOMAIN utg2 \cap users_in_groups)
        groups1 == [id \in DOMAIN groups0 |->
                      [groups0[id] EXCEPT !.members = @ \cap DOMAIN utg3]]
        groups2 == Restrict(groups1,
                       {id \in DOMAIN groups1 : Cardinality(groups1[id].members) > 1})
    IN  [user_to_group |-> utg3,
         groups |-> groups2,
         next_group_id |-> IF DOMAIN groups2 = {} THEN 0
                           ELSE (MaxOf(DOMAIN groups2) + 1) % (USIZE_MAX + 1)]

\* from_maps; `order` is the iteration order of the HashMap `groups`. The sum at
\* line 80 is the wrapping sum of a build without overflow checks; a build with
\* overflow checks panics there when from_maps_overflows holds.
from_maps(user_to_group0, groups0, order) ==
    LET utg1 == Restrict(user_to_group0,
                    {u \in DOMAIN user_to_group0 : user_to_group0[u] \in DOMAIN groups0})
        users_in_groups == UNION {groups0[id].members : id \in DOMAIN groups0}
        utg2 == fix_index(utg1, groups0, order, 1)
        utg3 == Restrict(utg2, DOMAIN utg2 \cap users_in_groups)
        groups1 == [id \in DOMAIN groups0 |->
                      [groups0[id] EXCEPT !.members = @ \cap DOMAIN utg3]]
        groups2 == Restrict(groups1, {id \in DOMAIN groups1 : groups1[id].members # {}})
    IN  [user_to_group |-> utg3,
         groups |-> groups2,
         next_group_id |-> IF DOMAIN groups2 = {} THEN 0
                           ELSE (MaxOf(DOMAIN groups2) + 1) % (USIZE_MAX + 1)]

\* from_maps, line 80: x + 1 exceeds usize::MAX
from_maps_overflows(user_to_group0, groups0, order) ==
    LET g == from_maps(user_to_group0, groups0, order)
    IN  DOMAIN g.groups # {} /\ MaxOf(DOMAIN g.groups) = USIZE_MAX

\* get_group_members returns [ok, members]; the Vec's order is the HashSet's
\* iteration order, so the result is given as the set of its elements
get_group_members(g, user) ==
    IF ~find_group_some(g, user)
    THEN [ok |-> TRUE, members |-> {user}]
    ELSE IF find_group(g, user) \notin DOMAIN g.groups
    THEN [ok |-> FALSE, members |-> {}]
    ELSE [ok |-> TRUE, members |-> g.groups[find_group(g, user)].members]

\* ------------- the four invariants of the index (tests.rs check_invariants)
Invariant1(g) ==
    \A u \in DOMAIN g.user_to_group :
        /\ g.user_to_group[u] \in DOMAIN g.groups
        /\ u \in g.groups[g.user_to_group[u]].members

Invariant2(g) ==
    \A id \in DOMAIN g.groups : \A u \in g.groups[id].members :
        u \in DOMAIN g.user_to_group /\ g.user_to_group[u] = id

Invariant3(g) == \A id \in DOMAIN g.groups : g.groups[id].members # {}

Invariant4(g) == \A id \in DOMAIN g.groups : g.next_group_id > id

FourInvariants(g) ==
    Invariant1(g) /\ Invariant2(g) /\ Invariant3(g) /\ Invariant4(g)

\* ------------------------------------------------- memory.rs: storage
\* load_history: rows ordered by timestamp (the clock never runs backwards, so
\* insertion order is timestamp order), expired rows dropped, then all but the
\* last MEMORY_MAX_MESSAGES entries of each user dropped
EntryOf(row) ==
    [sender |-> row.sender, receiver |-> row.receiver,
     timestamp |-> row.timestamp, message |-> row.message]

RECURSIVE SelectRows(_, _, _)
SelectRows(rows, user, oldest_allowed) ==
    IF rows = <<>>
    THEN <<>>
    ELSE LET tail == SelectRows(Tail(rows), user, oldest_allowed)
         IN  IF Head(rows).user = user /\ Head(rows).timestamp > oldest_allowed
             THEN <<EntryOf(Head(rows))>> \o tail
             ELSE tail

\* ORDER BY timestamp (line 74): the rows sorted by timestamp, rows of equal
\* timestamp in the order of insertion
RECURSIVE order_by_timestamp_desc(_)
order_by_timestamp_desc(rows) ==
    IF rows = <<>>
    THEN <<>>
    ELSE LET sorted == order_by_timestamp_desc(SubSeq(rows, 1, Len(rows) - 1))
             last == rows[Len(rows)]
             before == SelectSeq(sorted, LAMBDA row : row.timestamp > last.timestamp)
             after == SelectSeq(sorted, LAMBDA row : row.timestamp <= last.timestamp)
         IN  before \o <<last>> \o after

RECURSIVE order_by_timestamp(_)
order_by_timestamp(rows) ==
    IF rows = <<>>
    THEN <<>>
    ELSE LET sorted == order_by_timestamp(SubSeq(rows, 1, Len(rows) - 1))
             last == rows[Len(rows)]
             before == SelectSeq(sorted, LAMBDA row : row.timestamp <= last.timestamp)
             after == SelectSeq(sorted, LAMBDA row : row.timestamp > last.timestamp)
         IN  before \o <<last>> \o after

\* load_history without the retain on the timestamp (lines 94-99)
load_history_keeps_expired(rows, now) ==
    LET users == {rows[i].user : i \in 1..Len(rows)}
    IN  [u \in users |->
            LET user_entries == SelectRows(rows, u, now - USER_GROUP_RETENTION - MEMORY_RETENTION)
            IN  IF Len(user_entries) > MEMORY_MAX_MESSAGES
                THEN SubSeq(user_entries,
                            Len(user_entries) - MEMORY_MAX_MESSAGES + 1,
                            Len(user_entries))
                ELSE user_entries]

\* load_history with drain(MEMORY_MAX_MESSAGES..) in place of the drain at line 103
load_history_drops_newest(rows, now) ==
    LET oldest_allowed == now - MEMORY_RETENTION
        users == {rows[i].user : i \in {j \in 1..Len(rows) :
                                          rows[j].timestamp > oldest_allowed}}
    IN  [u \in users |->
            LET user_entries == SelectRows(rows, u, oldest_allowed)
            IN  IF Len(user_entries) > MEMORY_MAX_MESSAGES
                THEN SubSeq(user_entries, 1, MEMORY_MAX_MESSAGES)
                ELSE user_entries]

\* load_history with the cap applied to the entries of each channel apart
load_history_cap_per_channel(rows, now) ==
    LET oldest_allowed == now - MEMORY_RETENTION
        users == {rows[i].user : i \in {j \in 1..Len(rows) :
                                          rows[j].timestamp > oldest_allowed}}
        Kept(user_entries, e) ==
            Cardinality({i \in 1..Len(user_entries) :
                           user_entries[i].receiver = e.receiver}) <= MEMORY_MAX_MESSAGES
    IN  [u \in users |->
            LET user_entries == SelectRows(order_by_timestamp(rows), u, oldest_allowed)
            IN  SelectSeq(user_entries, LAMBDA e : Kept(user_entries, e))]

load_history(rows, now) ==
    LET oldest_allowed == now - MEMORY_RETENTION
        users == {rows[i].user : i \in {j \in 1..Len(rows) :
                                          rows[j].timestamp > oldest_allowed}}
    IN  [u \in users |->
            LET user_entries == SelectRows(order_by_timestamp(rows), u, oldest_allowed)
            IN  IF Len(user_entries) > MEMORY_MAX_MESSAGES
                THEN SubSeq(user_entries,
                            Len(user_entries) - MEMORY_MAX_MESSAGES + 1,
                            Len(user_entries))
                ELSE user_entries]

\* load_group_sets, lines 141-152, for the rows of one receiver: the index map
\* takes the group of a user's last row and a group's last_modified is that
\* of its first row; SELECT without ORDER BY leaves the row order open, so
\* every choice is a possible outcome
RowIndexMaps(rows) ==
    LET users == {row.user_name : row \in rows}
        ids == {row.group_id : row \in rows}
    IN  {f \in [users -> ids] :
            \A u \in users : \E row \in rows : row.user_name = u /\ row.group_id = f[u]}

RowGroupMaps(rows) ==
    LET ids == {row.group_id : row \in rows}
        stamps == {row.last_modified : row \in rows}
    IN  {[id \in ids |->
            [members |-> {row.user_name : row \in {x \in rows : x.group_id = id}},
             last_modified |-> lm[id]]] :
         lm \in {f \in [ids -> stamps] :
                   \A id \in ids : \E row \in rows :
                       row.group_id = id /\ row.last_modified = f[id]}}

\* the iteration orders of the group map that from_maps can tell apart: when
\* no user is listed in two groups the loop at lines 57-65 writes each index
\* entry once and every order gives the same result, so one order stands for all
GroupOrders(gm) ==
    IF \E a, b \in DOMAIN gm : a # b /\ gm[a].members \cap gm[b].members # {}
    THEN Perms(DOMAIN gm)
    ELSE {CHOOSE s \in Perms(DOMAIN gm) : TRUE}

\* load_group_sets: the set of maps receiver -> GroupSets it can return
LoadReceiver(rows, now) ==
    {expire_old_groups(r.g, now) :
        r \in UNION {{[g |-> from_maps(utg, gm, order)] :
                         utg \in RowIndexMaps(rows), order \in GroupOrders(gm)} :
                     gm \in RowGroupMaps(rows)}}

load_group_sets(rows, now) ==
    LET receivers == {row.receiver : row \in rows}
    IN  {f \in [receivers -> UNION {LoadReceiver({x \in rows : x.receiver = r}, now) :
                                       r \in receivers}] :
            \A r \in receivers : f[r] \in LoadReceiver({x \in rows : x.receiver = r}, now)}

\* save_group_sets: the rows of the table after DELETE and the INSERTs
save_group_sets(group_sets) ==
    UNION {{[user_name |-> u, receiver |-> r,
             group_id |-> group_sets[r].user_to_group[u],
             last_modified |-> group_sets[r].groups[group_sets[r].user_to_group[u]].last_modified] :
            u \in {x \in DOMAIN group_sets[r].user_to_group :
                     group_sets[r].user_to_group[x] \in DOMAIN group_sets[r].groups}} :
           r \in DOMAIN group_sets}

\* group_sets.entry(receiver).or_default()
entry_or_default(group_sets, receiver) ==
    IF receiver \in DOMAIN group_sets THEN group_sets[receiver] ELSE GroupSets_new

\* users.sort(): the elements of a set of users in ascending order
RECURSIVE sort(_)
sort(users) ==
    IF users = {}
    THEN <<>>
    ELSE LET least == CHOOSE u \in users : \A v \in users : u <= v
         IN  <<least>> \o sort(users \ {least})

\* Memory::get_joined_users on the view `view` of one invocation: [ok, users]
get_joined_users(view, user, receiver) ==
    IF receiver \in DOMAIN view
    THEN LET r == get_group_members(view[receiver], user)
         IN  [ok |-> r.ok, users |-> sort(r.members)]
    ELSE [ok |-> TRUE, users |-> <<user>>]

\* Memory::get_joined_users_excluding_self
get_joined_users_excluding_self(view, user, receiver) ==
    LET r == get_joined_users(view, user, receiver)
    IN  [ok |-> r.ok, users |-> SelectSeq(r.users, LAMBDA u : u # user)]

\* Memory::user_history on the entries `ents` of one invocation
user_history(ents, user, receiver) ==
    IF user \in DOMAIN ents
    THEN SelectSeq(ents[user], LAMBDA e : e.receiver = receiver)
    ELSE <<>>

\* clear_history_for_users, lines 258-265: the in-memory update
clear_entries(ents, users, receiver) ==
    LET cleared == [u \in DOMAIN ents |->
                      IF u \in users
                      THEN SelectSeq(ents[u], LAMBDA e : e.receiver # receiver)
                      ELSE ents[u]]
    IN  Restrict(cleared, {u \in DOMAIN cleared : cleared[u] # <<>>})

\* clear_history_for_users, lines 242-255: the DELETE statement
delete_rows(rows, users, receiver) ==
    SelectSeq(rows, LAMBDA row : ~(row.receiver = receiver /\ row.user \in users))

\* the mutation of a transaction: g.union(user1, user2) or g.remove_user(user)
mutate(op, g, now) ==
    IF op.name = "join_users"
    THEN union(g, op.users[1], op.users[2], now)
    ELSE [ok |-> TRUE, gs |-> remove_user(g, op.users[1], now)]

\* --------------------------------------- fuzz_operation_sequences
Op(name, proc, users, receiver, now, status) ==
    [name |-> name, proc |-> proc, users |-> users, receiver |-> receiver,
     now |-> now, status |-> status]

NoOp == Op("none", "none", <<>>, "none", 0, "ok")

NoMaps == [user_to_group |-> <<>>, groups |-> <<>>, order |-> <<>>]

\* no store is open: the GroupSets is exercised alone
MemIdle ==
    /\ db_group_sets = {}
    /\ db_memory = <<>>
    /\ lock = "none"
    /\ pc = [p \in Procs |-> "off"]
    /\ joined_users = [p \in Procs |-> <<>>]
    /\ entries = [p \in Procs |-> <<>>]
    /\ tx = [p \in Procs |-> <<>>]

InitOps ==
    /\ group_set = GroupSets_new
    /\ maps = NoMaps
    /\ clock = 0
    /\ panicked = FALSE
    /\ last_op = NoOp
    /\ MemIdle

\* time passes between calls; a transaction is open for a moment only
Tick ==
    /\ lock = "none"
    /\ clock + TickStep <= MaxClock
    /\ clock' = clock + TickStep
    /\ UNCHANGED <<gsvars, last_op, memvars>>

\* the number of group ids an operation on `users` allocates
NewIds(g, users) == Cardinality(users \ DOMAIN g.user_to_group)

AddUser(user) ==
    /\ ~panicked
    /\ group_set.next_group_id + NewIds(group_set, {user}) <= MaxGroupId
    /\ group_set' = add_user(group_set, user, clock)
    /\ last_op' = Op("add_user", "none", <<user>>, "none", clock, "ok")
    /\ UNCHANGED <<maps, clock, panicked, memvars>>

Union(user1, user2) ==
    /\ ~panicked
    /\ group_set.next_group_id + NewIds(group_set, {user1, user2}) <= MaxGroupId
    /\ LET r == union(group_set, user1, user2, clock)
       IN  /\ group_set' = r.gs
           /\ panicked' = ~r.ok
           /\ last_op' = Op("union", "none", <<user1, user2>>, "none", clock,
                            IF r.ok THEN "ok" ELSE "panic")
    /\ UNCHANGED <<maps, clock, memvars>>

\* last_op.users: the user removed, then the other members of the group it left
RemoveUser(user) ==
    /\ ~panicked
    /\ find_group_some(group_set, user) => group_set.next_group_id < MaxGroupId
    /\ group_set' = remove_user(group_set, user, clock)
    /\ last_op' = Op("remove_user", "none",
                     <<user>> \o sort(get_group_members(group_set, user).members \ {user}),
                     "none", clock, "ok")
    /\ UNCHANGED <<maps, clock, panicked, memvars>>

ExpireOldGroups(now) ==
    /\ ~panicked
    /\ group_set' = expire_old_groups(group_set, now)
    /\ last_op' = Op("expire_old_groups", "none", <<>>, "none", now, "ok")
    /\ UNCHANGED <<maps, clock, panicked, memvars>>

NextOps ==
    \/ Tick
    \/ \E u \in Users : AddUser(u)
    \/ \E u1, u2 \in Users : Union(u1, u2)
    \/ \E u \in Users : RemoveUser(u)

SpecOps == InitOps /\ [][NextOps]_vars

NextFuzz ==
    \/ Tick
    \/ \E u \in Users : AddUser(u)
    \/ \E u1, u2 \in Users : Union(u1, u2)
    \/ \E u \in Users : RemoveUser(u)
    \/ \E now \in Times : ExpireOldGroups(now)

SpecFuzz == InitOps /\ [][NextFuzz]_vars

\* ------------------------------------------------ fuzz_union_properties
\* The test draws three users and applies union(user1, user2), then
\* union(user2, user3). Here the GroupSets it starts from is any GroupSets
\* built by add_user, union and remove_user; `maps` keeps the users drawn and
\* the GroupSets at the draw.
UnionUsers == 1..MaxLoadUsers

Build ==
    /\ maps = NoMaps
    /\ \/ \E u \in UnionUsers : AddUser(u)
       \/ \E u1, u2 \in UnionUsers : Union(u1, u2)
       \/ \E u \in UnionUsers : RemoveUser(u)

DrawUsers(user1, user2, user3) ==
    /\ ~panicked
    /\ maps = NoMaps
    /\ maps' = [users |-> <<user1, user2, user3>>, start |-> group_set]
    /\ last_op' = Op("draw", "none", <<>>, "none", clock, "ok")
    /\ UNCHANGED <<group_set, clock, panicked, memvars>>

UnionAB ==
    /\ last_op.name = "draw"
    /\ LET r == union(group_set, maps.users[1], maps.users[2], clock)
       IN  /\ group_set' = r.gs
           /\ panicked' = ~r.ok
           /\ last_op' = Op("union_ab", "none", <<>>, "none", clock,
                            IF r.ok THEN "ok" ELSE "panic")
    /\ UNCHANGED <<maps, clock, memvars>>

UnionBC ==
    /\ last_op.name = "union_ab"
    /\ ~panicked
    /\ LET r == union(group_set, maps.users[2], maps.users[3], clock)
       IN  /\ group_set' = r.gs
           /\ panicked' = ~r.ok
           /\ last_op' = Op("union_bc", "none", <<>>, "none", clock,
                            IF r.ok THEN "ok" ELSE "panic")
    /\ UNCHANGED <<maps, clock, memvars>>

NextUnions ==
    \/ Build
    \/ \E u1, u2, u3 \in UnionUsers : DrawUsers(u1, u2, u3)
    \/ UnionAB
    \/ UnionBC

SpecUnions == InitOps /\ [][NextUnions]_vars

\* ------------------------------------------- fuzz_from_maps_always_valid
FmUsers == 1..MaxFmUsers
\* any::<usize>(): small ids and the largest one
FmGroupIds == (0..MaxFmGroupId) \cup {USIZE_MAX}

PartialFns(D, R) == UNION {[S -> R] : S \in SUBSET D}

\* arbitrary_maps: any index map and any group map, however inconsistent
FmIndexMaps == PartialFns(FmUsers, 0..(MaxFmGroupId + 1))
FmGroupMaps ==
    PartialFns(FmGroupIds, [members : SUBSET FmUsers, last_modified : {0, TickStep}])

InitFromMaps ==
    /\ group_set = GroupSets_new
    /\ \E utg \in FmIndexMaps, gm \in FmGroupMaps : \E order \in Perms(DOMAIN gm) :
          maps = [user_to_group |-> utg, groups |-> gm, order |-> order]
    /\ clock = 0
    /\ panicked = FALSE
    /\ last_op = NoOp
    /\ MemIdle

\* on overflow the build decides: wrap (no overflow checks) or panic
FromMaps ==
    /\ last_op.name = "none"
    /\ \/ /\ group_set' = from_maps(maps.user_to_group, maps.groups, maps.order)
          /\ last_op' = Op("from_maps", "none", <<>>, "none", 0, "ok")
          /\ UNCHANGED panicked
       \/ /\ from_maps_overflows(maps.user_to_group, maps.groups, maps.order)
          /\ panicked' = TRUE
          /\ last_op' = Op("from_maps", "none", <<>>, "none", 0, "panic")
          /\ UNCHANGED group_set
    /\ UNCHANGED <<maps, clock, memvars>>

NextFromMaps == FromMaps

SpecFromMaps == InitFromMaps /\ [][NextFromMaps]_vars

\* ------------------------------------------------- memory.rs: the store
\* the group rows found in the file when the first store is constructed:
\* none (tests setup_memory), the rows of test_memory_singletons, and one
\* two-member group as in test_memory_removes_expired_groups
GroupRow(user, receiver, group_id, last_modified) ==
    [user_name |-> user, receiver |-> receiver, group_id |-> group_id,
     last_modified |-> last_modified]

InitialDbs ==
    { {},
      {GroupRow(1, "chanA", 0, 0), GroupRow(2, "chanA", 1, 0)},
      {GroupRow(1, "chanA", 1, 0), GroupRow(2, "chanA", 1, 0)} }

InitMem(dbs, procs) ==
    /\ group_set = GroupSets_new
    /\ maps = NoMaps
    /\ clock = 0
    /\ panicked = FALSE
    /\ last_op = NoOp
    /\ db_group_sets \in dbs
    /\ db_memory = <<>>
    /\ lock = "none"
    /\ pc = [p \in Procs |-> IF p \in procs THEN "none" ELSE "off"]
    /\ joined_users = [p \in Procs |-> <<>>]
    /\ entries = [p \in Procs |-> <<>>]
    /\ tx = [p \in Procs |-> <<>>]

\* new_from_path deleting from the file the rows that load_history left out
NewFromPath_deleting_pruned(p, storage_ok) ==
    /\ pc[p] = "none"
    /\ IF storage_ok
       THEN /\ \E group_sets \in load_group_sets(db_group_sets, clock) :
                  joined_users' = [joined_users EXCEPT ![p] = group_sets]
            /\ entries' = [entries EXCEPT ![p] = load_history(db_memory, clock)]
            /\ db_memory' = SelectSeq(db_memory, LAMBDA row :
                    /\ row.user \in DOMAIN load_history(db_memory, clock)
                    /\ \E i \in 1..Len(load_history(db_memory, clock)[row.user]) :
                          load_history(db_memory, clock)[row.user][i] = EntryOf(row))
            /\ pc' = [pc EXCEPT ![p] = "ready"]
            /\ last_op' = Op("new_from_path", p, <<>>, "none", 0, "ok")
       ELSE /\ last_op' = Op("new_from_path", p, <<>>, "none", 0, "err")
            /\ UNCHANGED <<joined_users, entries, pc, db_memory>>
    /\ UNCHANGED <<gsvars, clock, db_group_sets, lock, tx>>

\* Memory::new_from_path; storage_ok = FALSE: opening or loading fails
NewFromPath(p, storage_ok) ==
    /\ pc[p] = "none"
    /\ IF storage_ok
       THEN /\ \E group_sets \in load_group_sets(db_group_sets, clock) :
                  joined_users' = [joined_users EXCEPT ![p] = group_sets]
            /\ entries' = [entries EXCEPT ![p] = load_history(db_memory, clock)]
            /\ pc' = [pc EXCEPT ![p] = "ready"]
            /\ last_op' = Op("new_from_path", p, <<>>, "none", 0, "ok")
       ELSE /\ last_op' = Op("new_from_path", p, <<>>, "none", 0, "err")
            /\ UNCHANGED <<joined_users, entries, pc>>
    /\ UNCHANGED <<gsvars, clock, db_group_sets, db_memory, lock, tx>>

\* the invocation ends and its store is dropped
Exit(p) ==
    /\ pc[p] = "ready"
    /\ pc' = [pc EXCEPT ![p] = "none"]
    /\ joined_users' = [joined_users EXCEPT ![p] = <<>>]
    /\ entries' = [entries EXCEPT ![p] = <<>>]
    /\ last_op' = Op("exit", p, <<>>, "none", 0, "ok")
    /\ UNCHANGED <<gsvars, clock, db_group_sets, db_memory, lock, tx>>

\* Memory::add_to_history; storage_ok = FALSE: the INSERT fails
AddToHistory(p, user, sender, receiver, message, storage_ok) ==
    /\ pc[p] = "ready"
    /\ storage_ok => lock = "none"
    /\ LET entry == [sender |-> sender, receiver |-> receiver,
                     timestamp |-> clock, message |-> message]
       IN  IF storage_ok
           THEN /\ db_memory' = Append(db_memory,
                      [user |-> user, sender |-> sender, receiver |-> receiver,
                       timestamp |-> clock, message |-> message])
                /\ entries' = [entries EXCEPT ![p] =
                      Insert(@, user, (IF user \in DOMAIN @ THEN @[user] ELSE <<>>)
                                        \o <<entry>>)]
                /\ last_op' = Op("add_to_history", p, <<user>>, receiver, 0, "ok")
           ELSE /\ last_op' = Op("add_to_history", p, <<>>, "none", 0, "err")
                /\ UNCHANGED <<db_memory, entries>>
    /\ UNCHANGED <<gsvars, clock, db_group_sets, lock, pc, joined_users, tx>>

\* clear_history_for_joined_users reading the groups from the file first
ClearHistoryForJoinedUsers_reloading(p, user, receiver, storage_ok) ==
    /\ pc[p] = "ready"
    /\ storage_ok => lock = "none"
    /\ \E group_sets \in load_group_sets(db_group_sets, clock) :
          LET joined == get_joined_users(group_sets, user, receiver)
              users == {joined.users[i] : i \in 1..Len(joined.users)}
          IN  IF ~joined.ok
              THEN /\ pc' = [pc EXCEPT ![p] = "panicked"]
                   /\ last_op' = Op("clear_history_for_joined_users", p, <<user>>,
                                    receiver, 0, "panic")
                   /\ UNCHANGED <<db_memory, entries, joined_users>>
              ELSE IF storage_ok
              THEN /\ db_memory' = delete_rows(db_memory, users, receiver)
                   /\ entries' = [entries EXCEPT ![p] = clear_entries(@, users, receiver)]
                   /\ joined_users' = [joined_users EXCEPT ![p] = group_sets]
                   /\ last_op' = Op("clear_history_for_joined_users", p, <<user>>,
                                    receiver, 0, "ok")
                   /\ UNCHANGED pc
              ELSE /\ last_op' = Op("clear_history_for_joined_users", p, <<>>,
                                    "none", 0, "err")
                   /\ UNCHANGED <<db_memory, entries, pc, joined_users>>
    /\ UNCHANGED <<gsvars, clock, db_group_sets, lock, tx>>

\* Memory::clear_history_for_joined_users; storage_ok = FALSE: the DELETE fails
ClearHistoryForJoinedUsers(p, user, receiver, storage_ok) ==
    /\ pc[p] = "ready"
    /\ storage_ok => lock = "none"
    /\ LET joined == get_joined_users(joined_users[p], user, receiver)
           users == {joined.users[i] : i \in 1..Len(joined.users)}
       IN  IF ~joined.ok
           THEN /\ pc' = [pc EXCEPT ![p] = "panicked"]
                /\ last_op' = Op("clear_history_for_joined_users", p, <<user>>,
                                 receiver, 0, "panic")
                /\ UNCHANGED <<db_memory, entries>>
           ELSE IF storage_ok
           THEN /\ db_memory' = delete_rows(db_memory, users, receiver)
                /\ entries' = [entries EXCEPT ![p] = clear_entries(@, users, receiver)]
                /\ last_op' = Op("clear_history_for_joined_users", p, <<user>>,
                                 receiver, 0, "ok")
                /\ UNCHANGED pc
           ELSE /\ last_op' = Op("clear_history_for_joined_users", p, <<>>,
                                 "none", 0, "err")
                /\ UNCHANGED <<db_memory, entries, pc>>
    /\ UNCHANGED <<gsvars, clock, db_group_sets, lock, joined_users, tx>>

\* Transaction without the reload: the mutation is applied to the in-memory view
Transaction_on_stale_view(p, op, storage_ok) ==
    /\ pc[p] = "ready"
    /\ storage_ok => lock = "none"
    /\ IF ~storage_ok
       THEN /\ last_op' = Op(op.name, p, <<>>, "none", 0, "err")
            /\ UNCHANGED <<lock, pc, tx>>
       ELSE LET group_sets == joined_users[p]
                m == mutate(op, entry_or_default(group_sets, op.receiver), clock)
            IN  /\ m.gs.next_group_id <= MaxGroupId
                /\ IF m.ok
                   THEN /\ tx' = [tx EXCEPT ![p] =
                              [op |-> op, group_sets |-> Insert(group_sets, op.receiver, m.gs)]]
                        /\ lock' = p
                        /\ pc' = [pc EXCEPT ![p] = "commit"]
                        /\ last_op' = [op EXCEPT !.status = "saved"]
                   ELSE /\ pc' = [pc EXCEPT ![p] = "panicked"]
                        /\ last_op' = [op EXCEPT !.status = "panic"]
                        /\ UNCHANGED <<lock, tx>>
    /\ UNCHANGED <<gsvars, clock, db_group_sets, db_memory, joined_users, entries>>

\* join_users / make_user_solo up to and including save_group_sets: the
\* IMMEDIATE transaction takes the write lock, the group relation is reloaded,
\* mutated and rewritten inside the transaction. storage_ok = FALSE: begin
\* (also when another invocation holds the lock), reload or rewrite fails, the
\* transaction is rolled back and Err is returned.
Transaction(p, op, storage_ok) ==
    /\ pc[p] = "ready"
    /\ storage_ok => lock = "none"
    /\ IF ~storage_ok
       THEN /\ last_op' = Op(op.name, p, <<>>, "none", 0, "err")
            /\ UNCHANGED <<lock, pc, tx>>
       ELSE \E group_sets \in load_group_sets(db_group_sets, clock) :
              LET m == mutate(op, entry_or_default(group_sets, op.receiver), clock)
              IN  /\ m.gs.next_group_id <= MaxGroupId
                  /\ IF m.ok
                     THEN /\ tx' = [tx EXCEPT ![p] =
                                [op |-> op, group_sets |-> Insert(group_sets, op.receiver, m.gs)]]
                          /\ lock' = p
                          /\ pc' = [pc EXCEPT ![p] = "commit"]
                          /\ last_op' = [op EXCEPT !.status = "saved"]
                     ELSE /\ pc' = [pc EXCEPT ![p] = "panicked"]
                          /\ last_op' = [op EXCEPT !.status = "panic"]
                          /\ UNCHANGED <<lock, tx>>
    /\ UNCHANGED <<gsvars, clock, db_group_sets, db_memory, joined_users, entries>>

JoinUsers(p, user1, user2, receiver, storage_ok) ==
    Transaction(p, Op("join_users", p, <<user1, user2>>, receiver, clock, "begin"),
                storage_ok)

MakeUserSolo(p, user, receiver, storage_ok) ==
    Transaction(p, Op("make_user_solo", p, <<user>>, receiver, clock, "begin"),
                storage_ok)

\* Commit with self.joined_users = group_sets placed before tx.commit()
Commit_after_swap(p, storage_ok) ==
    /\ pc[p] = "commit"
    /\ joined_users' = [joined_users EXCEPT ![p] = tx[p].group_sets]
    /\ IF storage_ok
       THEN /\ db_group_sets' = save_group_sets(tx[p].group_sets)
            /\ last_op' = [tx[p].op EXCEPT !.status = "ok"]
       ELSE /\ last_op' = Op(tx[p].op.name, p, <<>>, "none", 0, "err")
            /\ UNCHANGED db_group_sets
    /\ lock' = "none"
    /\ pc' = [pc EXCEPT ![p] = "ready"]
    /\ tx' = [tx EXCEPT ![p] = <<>>]
    /\ UNCHANGED <<gsvars, clock, db_memory, entries>>

\* tx.commit() and, when it succeeded, self.joined_users = group_sets;
\* storage_ok = FALSE: the commit fails and the transaction is rolled back
Commit(p, storage_ok) ==
    /\ pc[p] = "commit"
    /\ IF storage_ok
       THEN /\ db_group_sets' = save_group_sets(tx[p].group_sets)
            /\ joined_users' = [joined_users EXCEPT ![p] = tx[p].group_sets]
            /\ last_op' = [tx[p].op EXCEPT !.status = "ok"]
       ELSE /\ last_op' = Op(tx[p].op.name, p, <<>>, "none", 0, "err")
            /\ UNCHANGED <<db_group_sets, joined_users>>
    /\ lock' = "none"
    /\ pc' = [pc EXCEPT ![p] = "ready"]
    /\ tx' = [tx EXCEPT ![p] = <<>>]
    /\ UNCHANGED <<gsvars, clock, db_memory, entries>>

\* Memory::get_joined_users called by the front end
GetJoinedUsers(p, user, receiver) ==
    /\ pc[p] = "ready"
    /\ IF get_joined_users(joined_users[p], user, receiver).ok
       THEN /\ last_op' = Op("get_joined_users", p, <<>>, "none", 0, "ok")
            /\ UNCHANGED pc
       ELSE /\ last_op' = Op("get_joined_users", p, <<user>>, receiver, 0, "panic")
            /\ pc' = [pc EXCEPT ![p] = "panicked"]
    /\ UNCHANGED <<gsvars, clock, db_group_sets, db_memory, lock, joined_users,
                   entries, tx>>

\* Memory::get_joined_users_excluding_self
GetJoinedUsersExcludingSelf(p, user, receiver) ==
    /\ pc[p] = "ready"
    /\ IF get_joined_users_excluding_self(joined_users[p], user, receiver).ok
       THEN /\ last_op' = Op("get_joined_users_excluding_self", p, <<>>, "none", 0, "ok")
            /\ UNCHANGED pc
       ELSE /\ last_op' = Op("get_joined_users_excluding_self", p, <<user>>, receiver,
                             0, "panic")
            /\ pc' = [pc EXCEPT ![p] = "panicked"]
    /\ UNCHANGED <<gsvars, clock, db_group_sets, db_memory, lock, joined_users,
                   entries, tx>>

\* Memory::user_history
UserHistory(p, user, receiver) ==
    /\ pc[p] = "ready"
    /\ last_op' = Op("user_history", p, <<>>, "none",
                     Len(user_history(entries[p], user, receiver)), "ok")
    /\ UNCHANGED <<gsvars, clock, db_group_sets, db_memory, lock, pc, joined_users,
                   entries, tx>>

\* one invocation after the other on one file: group operations and queries
NextStore ==
    \/ Tick
    \/ \E p \in Procs, ok \in BOOLEAN : NewFromPath(p, ok)
    \/ \E p \in Procs : Exit(p)
    \/ \E p \in Procs, u1, u2 \in Users, ok \in BOOLEAN : JoinUsers(p, u1, u2, "chanA", ok)
    \/ \E p \in Procs, u \in Users, ok \in BOOLEAN : MakeUserSolo(p, u, "chanA", ok)
    \/ \E p \in Procs, ok \in BOOLEAN : Commit(p, ok)
    \/ \E p \in Procs, u \in Users : GetJoinedUsers(p, u, "chanA")
    \/ \E p \in Procs, u \in Users : GetJoinedUsersExcludingSelf(p, u, "chanA")

SpecStore == InitMem(InitialDbs, {"inv1"}) /\ [][NextStore]_vars

\* one invocation after the other on one file: group operations, queries and
\* chat activity
NextActivity ==
    \/ \E p \in Procs, ok \in BOOLEAN : NewFromPath(p, ok)
    \/ \E p \in Procs : Exit(p)
    \/ \E p \in Procs, u1, u2 \in Users, ok \in BOOLEAN : JoinUsers(p, u1, u2, "chanA", ok)
    \/ \E p \in Procs, u \in Users, ok \in BOOLEAN : MakeUserSolo(p, u, "chanA", ok)
    \/ \E p \in Procs, ok \in BOOLEAN : Commit(p, ok)
    \/ \E p \in Procs, u \in Users : GetJoinedUsers(p, u, "chanA")
    \/ \E p \in Procs, u \in Users, ok \in BOOLEAN :
          /\ ok => Len(db_memory) < MaxEntries
          /\ AddToHistory(p, u, "user", "chanA", "m", ok)
    \/ \E p \in Procs, u \in Users, ok \in BOOLEAN :
          ClearHistoryForJoinedUsers(p, u, "chanA", ok)
    \/ \E p \in Procs, u \in Users : UserHistory(p, u, "chanA")

SpecActivity == InitMem(InitialDbs, {"inv1"}) /\ [][NextActivity]_vars

\* one invocation on one file, two channels: every mutating call, with and
\* without storage failures
NextFailures ==
    \/ \E p \in Procs, ok \in BOOLEAN : NewFromPath(p, ok)
    \/ \E p \in Procs : Exit(p)
    \/ \E p \in Procs, u \in StoreUsers, s \in Senders, r \in Receivers, ok \in BOOLEAN :
          /\ ok => Len(db_memory) < MaxEntries
          /\ AddToHistory(p, u, s, r, "m", ok)
    \/ \E p \in Procs, u \in StoreUsers, r \in Receivers, ok \in BOOLEAN :
          ClearHistoryForJoinedUsers(p, u, r, ok)
    \/ \E p \in Procs, u1, u2 \in StoreUsers, r \in Receivers, ok \in BOOLEAN :
          JoinUsers(p, u1, u2, r, ok)
    \/ \E p \in Procs, u \in StoreUsers, r \in Receivers, ok \in BOOLEAN :
          MakeUserSolo(p, u, r, ok)
    \/ \E p \in Procs, ok \in BOOLEAN : Commit(p, ok)
    \/ \E p \in Procs, u \in StoreUsers, r \in Receivers : UserHistory(p, u, r)

SpecFailures == InitMem({{}}, {"inv1"}) /\ [][NextFailures]_vars

\* two invocations at once on one file, one channel, group operations only
NextConcurrent ==
    \/ \E p \in Procs, ok \in BOOLEAN : NewFromPath(p, ok)
    \/ \E p \in Procs : Exit(p)
    \/ \E p \in Procs, u1, u2 \in StoreUsers, ok \in BOOLEAN : JoinUsers(p, u1, u2, "chanA", ok)
    \/ \E p \in Procs, u \in StoreUsers, ok \in BOOLEAN : MakeUserSolo(p, u, "chanA", ok)
    \/ \E p \in Procs, ok \in BOOLEAN : Commit(p, ok)

SpecConcurrent == InitMem({{}}, Procs) /\ [][NextConcurrent]_vars

\* ------------------------------------- memory.rs: construction from a file
\* the rows found in the file when a store is constructed at time LoadNow, as
\* the tests of memory.rs insert them: one time unit before the cutoff, at the
\* cutoff, one unit after it, and now
LoadNow == USER_GROUP_RETENTION + 1

LoadUsers == 1..MaxLoadUsers

GroupStamps ==
    {LoadNow - USER_GROUP_RETENTION - 1, LoadNow - USER_GROUP_RETENTION,
     LoadNow - USER_GROUP_RETENTION + 1, LoadNow}

EntryStamps ==
    {LoadNow - MEMORY_RETENTION - 1, LoadNow - MEMORY_RETENTION,
     LoadNow - MEMORY_RETENTION + 1, LoadNow}

\* test_memory_removes_expired_groups: groups 1 and 2 of one channel, every
\* user in at most one of them, one last_modified per group
LoadGroupDbs ==
    {{GroupRow(u, "chanA", of[u], lm[of[u]]) : u \in DOMAIN of} :
        of \in PartialFns(LoadUsers, 1..2), lm \in [1..2 -> GroupStamps]}

MemoryRow(user, sender, receiver, timestamp, message) ==
    [user |-> user, sender |-> sender, receiver |-> receiver,
     timestamp |-> timestamp, message |-> message]

\* test_memory_load_removes_old_entries: a few rows of two users in two
\* channels, in timestamp order; the message is the row's position
ShortHistories ==
    UNION {{[i \in 1..n |-> MemoryRow(h[i].user, "user", h[i].receiver, h[i].timestamp, i)] :
              h \in {x \in [1..n -> [user : 1..2, receiver : Receivers,
                                     timestamp : EntryStamps]] :
                       \A i \in 1..(n - 1) : x[i].timestamp <= x[i + 1].timestamp}} :
           n \in 0..MaxLoadEntries}

\* test_memory_max_messages: n rows of one user, the first k of them expired,
\* all in one channel or alternating between two; the message is the position
MaxHistory == MEMORY_MAX_MESSAGES + MaxExcess

LongHistories ==
    {[i \in 1..n |->
        MemoryRow(1, "user",
                  IF alternate /\ i % 2 = 0 THEN "chanB" ELSE "chanA",
                  IF i <= k THEN LoadNow - MEMORY_RETENTION - 1 ELSE LoadNow, i)] :
     n \in (MEMORY_MAX_MESSAGES - 1)..MaxHistory, k \in 0..MaxExcess, alternate \in BOOLEAN}

InitLoad ==
    /\ group_set = GroupSets_new
    /\ maps = NoMaps
    /\ clock = LoadNow
    /\ panicked = FALSE
    /\ last_op = NoOp
    /\ \/ db_group_sets \in LoadGroupDbs /\ db_memory = <<>>
       \/ db_group_sets = {} /\ db_memory \in ShortHistories \cup LongHistories
    /\ lock = "none"
    /\ pc = [p \in Procs |-> IF p = "inv1" THEN "none" ELSE "off"]
    /\ joined_users = [p \in Procs |-> <<>>]
    /\ entries = [p \in Procs |-> <<>>]
    /\ tx = [p \in Procs |-> <<>>]

\* a store is constructed from the file and queried
NextLoad ==
    \/ \E p \in Procs, ok \in BOOLEAN : NewFromPath(p, ok)
    \/ \E p \in Procs : Exit(p)
    \/ \E p \in Procs, u \in LoadUsers : GetJoinedUsers(p, u, "chanA")
    \/ \E p \in Procs, u \in 1..2, r \in Receivers : UserHistory(p, u, r)

SpecLoad == InitLoad /\ [][NextLoad]_vars

\* a file with expired groups, old entries or more entries than the cap is
\* opened by one store after the other, which clear histories and join or
\* separate users
InitDurable ==
    /\ InitLoad
    /\ \A row \in db_group_sets : row.user_name \in StoreUsers
    /\ db_memory \in LongHistories \/ Len(db_memory) < MaxLoadEntries

NextDurable ==
    \/ \E p \in Procs, ok \in BOOLEAN : NewFromPath(p, ok)
    \/ \E p \in Procs : Exit(p)
    \/ \E p \in Procs, u \in StoreUsers, r \in Receivers, ok \in BOOLEAN :
          ClearHistoryForJoinedUsers(p, u, r, ok)
    \/ \E p \in Procs, u1, u2 \in StoreUsers, ok \in BOOLEAN :
          JoinUsers(p, u1, u2, "chanA", ok)
    \/ \E p \in Procs, u \in StoreUsers, ok \in BOOLEAN : MakeUserSolo(p, u, "chanA", ok)
    \/ \E p \in Procs, ok \in BOOLEAN : Commit(p, ok)

SpecDurable == InitDurable /\ [][NextDurable]_vars

\* ------------------------- memory.rs: clear_history_for_joined_users
\* test_clear_history_for_joined_users: the file holds at most one group (of
\* two or three users, in either channel) and a few fresh entries of three
\* users, or more entries of one user than the cap keeps
ClearGroupDbs ==
    {{GroupRow(u, r, 0, LoadNow) : u \in members} :
        members \in {S \in SUBSET Users : Cardinality(S) # 1}, r \in Receivers}

ClearHistories ==
    UNION {{[i \in 1..n |-> MemoryRow(h[i].user, "user", h[i].receiver, LoadNow, i)] :
              h \in [1..n -> [user : Users, receiver : Receivers]]} :
           n \in 0..MaxLoadEntries}

\* k entries of user 1 in chanB, then MEMORY_MAX_MESSAGES entries in chanA
CappedHistories ==
    {[i \in 1..(k + MEMORY_MAX_MESSAGES) |->
        MemoryRow(1, "user", IF i <= k THEN "chanB" ELSE "chanA", LoadNow, i)] :
     k \in 1..MaxExcess}

InitClear ==
    /\ group_set = GroupSets_new
    /\ maps = NoMaps
    /\ clock = LoadNow
    /\ panicked = FALSE
    /\ last_op = NoOp
    /\ db_group_sets \in ClearGroupDbs
    /\ db_memory \in ClearHistories \cup CappedHistories
    /\ lock = "none"
    /\ pc = [p \in Procs |-> IF p = "inv1" THEN "none" ELSE "off"]
    /\ joined_users = [p \in Procs |-> <<>>]
    /\ entries = [p \in Procs |-> <<>>]
    /\ tx = [p \in Procs |-> <<>>]

NextClear ==
    \/ \E p \in Procs, ok \in BOOLEAN : NewFromPath(p, ok)
    \/ \E p \in Procs : Exit(p)
    \/ \E p \in Procs, u \in Users, r \in Receivers, ok \in BOOLEAN :
          ClearHistoryForJoinedUsers(p, u, r, ok)
    \/ \E p \in Procs, u \in Users, r \in Receivers : UserHistory(p, u, r)

SpecClear == InitClear /\ [][NextClear]_vars

\* --------------------- memory.rs: two stores, groups and histories
\* the file holds one fresh entry of each of two users in chanA; two
\* invocations open it, join users and clear histories in any interleaving
StaleHistories ==
    {[i \in 1..MaxStoreUsers |-> MemoryRow(i, "user", "chanA", 0, i)]}

InitStale ==
    /\ group_set = GroupSets_new
    /\ maps = NoMaps
    /\ clock = 0
    /\ panicked = FALSE
    /\ last_op = NoOp
    /\ db_group_sets = {}
    /\ db_memory \in StaleHistories
    /\ lock = "none"
    /\ pc = [p \in Procs |-> "none"]
    /\ joined_users = [p \in Procs |-> <<>>]
    /\ entries = [p \in Procs |-> <<>>]
    /\ tx = [p \in Procs |-> <<>>]

NextStale ==
    \/ \E p \in Procs : NewFromPath(p, TRUE)
    \/ \E p \in Procs : Exit(p)
    \/ \E p \in Procs, u1, u2 \in StoreUsers :
          \* parse_command drops the sender from the users to join
          /\ u1 # u2
          /\ JoinUsers(p, u1, u2, "chanA", TRUE)
    \/ \E p \in Procs : Commit(p, TRUE)
    \/ \E p \in Procs, u \in StoreUsers, ok \in BOOLEAN :
          ClearHistoryForJoinedUsers(p, u, "chanA", ok)

SpecStale == InitStale /\ [][NextStale]_vars

\* --------------------------------- memory.rs: histories over several stores
\* test_memory_new_from_path_and_persistence: entries are appended, cleared and
\* read back by one store after the other while time passes; the messages are
\* numbered in the order in which they are appended
HistStep == MaxHistClock \div 3

NextMessage ==
    IF db_memory = <<>>
    THEN 1
    ELSE 1 + MaxOf({db_memory[i].message : i \in 1..Len(db_memory)})

HistTick ==
    /\ lock = "none"
    /\ clock + HistStep <= MaxHistClock
    /\ clock' = clock + HistStep
    /\ UNCHANGED <<gsvars, last_op, memvars>>

NextHistory ==
    \/ HistTick
    \/ \E p \in Procs, ok \in BOOLEAN : NewFromPath(p, ok)
    \/ \E p \in Procs : Exit(p)
    \/ \E p \in Procs, u \in StoreUsers, r \in Receivers, ok \in BOOLEAN :
          /\ ok => Len(db_memory) < MaxLoadEntries /\ NextMessage <= MaxHistMessage
          /\ AddToHistory(p, u, "user", r, NextMessage, ok)
    \/ \E p \in Procs, u \in StoreUsers, r \in Receivers, ok \in BOOLEAN :
          ClearHistoryForJoinedUsers(p, u, r, ok)
    \/ \E p \in Procs, u \in StoreUsers, r \in Receivers : UserHistory(p, u, r)

SpecHistory == InitMem({{}}, {"inv1"}) /\ [][NextHistory]_vars

\* ------------------------------------------- main.rs: process_command
\* The loop of Command::Join: memory.join_users(sender, user, receiver) for
\* each listed user, every call in a transaction of its own. The result is the
\* set of possible outcomes [status, rows, view]; fail_at = k > 0: the storage
\* fails in the k-th call, which returns Err and ends the loop.
\* the loop leaving after its first iteration
join_each_first_only(rows, view, sender, users, receiver, now, fail_at) ==
    IF fail_at = 1
    THEN {[status |-> "err", rows |-> rows, view |-> view]}
    ELSE {LET m == union(entry_or_default(group_sets, receiver), sender, Head(users), now)
              saved == Insert(group_sets, receiver, m.gs)
          IN  IF m.ok
              THEN [status |-> "ok", rows |-> save_group_sets(saved), view |-> saved]
              ELSE [status |-> "panic", rows |-> rows, view |-> view] :
          group_sets \in load_group_sets(rows, now)}

RECURSIVE join_each(_, _, _, _, _, _, _)
join_each(rows, view, sender, users, receiver, now, fail_at) ==
    IF users = <<>>
    THEN {[status |-> "ok", rows |-> rows, view |-> view]}
    ELSE IF fail_at = 1
    THEN {[status |-> "err", rows |-> rows, view |-> view]}
    ELSE UNION {LET m == union(entry_or_default(group_sets, receiver), sender,
                               Head(users), now)
                    saved == Insert(group_sets, receiver, m.gs)
                IN  IF m.ok
                    THEN join_each(save_group_sets(saved), saved, sender, Tail(users),
                                   receiver, now, fail_at - 1)
                    ELSE {[status |-> "panic", rows |-> rows, view |-> view]} :
                group_sets \in load_group_sets(rows, now)}

\* the lists of users of a Join command
JoinLists == UNION {[1..n -> Users] : n \in 1..MaxJoinList}

\* process_command(Command::Join { sender, users }, receiver, memory); the
\* reply lists get_joined_users_excluding_self(sender, receiver)
ProcessJoin(p, sender, users, receiver, fail_at) ==
    /\ pc[p] = "ready"
    /\ lock = "none"
    /\ \E o \in join_each(db_group_sets, joined_users[p], sender, users, receiver,
                         clock, fail_at) :
          LET reply == get_joined_users_excluding_self(o.view, sender, receiver)
              call == Op("join", p, <<sender>> \o users, receiver, clock, o.status)
          IN  /\ \A r \in DOMAIN o.view : o.view[r].next_group_id <= MaxGroupId
              /\ db_group_sets' = o.rows
              /\ joined_users' = [joined_users EXCEPT ![p] = o.view]
              /\ IF o.status = "ok" /\ reply.ok
                 THEN /\ last_op' = [reply |-> reply.users] @@ call
                      /\ UNCHANGED pc
                 ELSE IF o.status = "err"
                 THEN /\ last_op' = call
                      /\ UNCHANGED pc
                 ELSE /\ last_op' = [call EXCEPT !.status = "panic"]
                      /\ pc' = [pc EXCEPT ![p] = "panicked"]
    /\ UNCHANGED <<gsvars, clock, db_memory, lock, entries, tx>>

\* one invocation after the other, each processing Join and Solo commands
NextCommands ==
    \/ \E p \in Procs, ok \in BOOLEAN : NewFromPath(p, ok)
    \/ \E p \in Procs : Exit(p)
    \/ \E p \in Procs, sender \in Users, users \in JoinLists, fail_at \in 0..MaxJoinList :
          ProcessJoin(p, sender, users, "chanA", fail_at)
    \/ \E p \in Procs, u \in Users, ok \in BOOLEAN : MakeUserSolo(p, u, "chanA", ok)
    \/ \E p \in Procs, ok \in BOOLEAN : Commit(p, ok)

SpecCommands == InitMem(InitialDbs, {"inv1"}) /\ [][NextCommands]_vars

\* ------------------------------------------------------------ claims

\* C1: starting from an empty GroupSets, after every add_user, union and
\* remove_user the four invariants of check_invariants hold.
C1_InvariantsAfterOps == FourInvariants(group_set) /\ ~panicked

C1_Witness ==
    /\ last_op.name = "remove_user"
    /\ Cardinality(DOMAIN group_set.groups) = 2
    /\ \E id \in DOMAIN group_set.groups : Cardinality(group_set.groups[id].members) = 2

\* C2: expire_old_groups(now) removes the groups older than the retention
\* window, then the groups with exactly one member, and the index entries of
\* all removed groups; afterwards no index entry points to a missing group
\* and the four invariants hold.
C2_ExpireKeepsInvariants ==
    [][\A now \in Times :
          ExpireOldGroups(now) =>
             LET survivors ==
                   {id \in DOMAIN group_set.groups :
                      /\ group_set.groups[id].last_modified > now - USER_GROUP_RETENTION
                      /\ Cardinality(group_set.groups[id].members) # 1}
             IN  /\ group_set'.groups = Restrict(group_set.groups, survivors)
                 /\ \A u \in DOMAIN group_set'.user_to_group :
                        group_set'.user_to_group[u] \in DOMAIN group_set'.groups
                 /\ FourInvariants(group_set')]_vars

\* C4: from_maps returns a GroupSets satisfying the four invariants for every
\* pair of input maps.
C4_FromMapsAlwaysValid ==
    last_op.name = "from_maps" => FourInvariants(group_set)

\* C5: a user listed in two or more groups gets one canonical group, the first
\* encountered, and is discarded from every other group; each surviving
\* group's members are exactly the users indexed to it.
C5_FirstGroupWins ==
    last_op.name = "from_maps" =>
        LET order == maps.order
            First(u) == order[CHOOSE i \in 1..Len(order) :
                               /\ u \in maps.groups[order[i]].members
                               /\ \A j \in 1..(i - 1) : u \notin maps.groups[order[j]].members]
            listed == UNION {maps.groups[id].members : id \in DOMAIN maps.groups}
        IN  /\ DOMAIN group_set.user_to_group = listed
            /\ \A u \in listed :
                   /\ group_set.user_to_group[u] = First(u)
                   /\ \A id \in DOMAIN group_set.groups :
                          u \in group_set.groups[id].members <=> id = First(u)
            /\ \A id \in DOMAIN group_set.groups :
                   group_set.groups[id].members =
                       {u \in DOMAIN group_set.user_to_group : group_set.user_to_group[u] = id}

\* C3: no call of the store aborts abnormally; in particular the lookups in
\* union and get_group_members never hit a group id missing from the group map.
C3_NoAbort == \A p \in Procs : pc[p] # "panicked"

\* C6: after any sequence of successful join_users and make_user_solo calls no
\* group_id of the persisted group rows has exactly one member row.
C6_NoPersistedSingleton ==
    (last_op.name \in {"join_users", "make_user_solo"} /\ last_op.status = "ok") =>
        \A row \in db_group_sets :
            Cardinality({x \in db_group_sets :
                           x.receiver = row.receiver /\ x.group_id = row.group_id}) # 1

\* C7: in every reachable store state get_joined_users(user, channel) returns
\* an ascending list that contains user, and [user] when user shares a group
\* with nobody in that channel.
IsAscending(users) == \A i \in 1..(Len(users) - 1) : users[i] < users[i + 1]

SharesGroup(view, user, receiver) ==
    /\ receiver \in DOMAIN view
    /\ \E id \in DOMAIN view[receiver].groups :
          /\ user \in view[receiver].groups[id].members
          /\ view[receiver].groups[id].members # {user}

C7_JoinedUsersSortedWithSelf ==
    \A p \in Procs : pc[p] = "ready" =>
        \A user \in Users, receiver \in Receivers :
            LET r == get_joined_users(joined_users[p], user, receiver)
            IN  /\ r.ok
                /\ IsAscending(r.users)
                /\ \E i \in 1..Len(r.users) : r.users[i] = user
                /\ ~SharesGroup(joined_users[p], user, receiver) => r.users = <<user>>

\* C8: with two invocations on one file, every committed join_users or
\* make_user_solo is applied to the relation left by the commit before it: the
\* rows after a commit are the mutation applied to the rows before the commit.
C8_CommitsAreSerial ==
    [][\A p \in Procs :
          (pc[p] = "commit" /\ pc'[p] = "ready" /\ last_op'.status = "ok") =>
             LET op == tx[p].op
             IN  db_group_sets' \in
                    {save_group_sets(Insert(gs, op.receiver,
                        mutate(op, entry_or_default(gs, op.receiver), op.now).gs)) :
                     gs \in load_group_sets(db_group_sets, op.now)}]_vars

C8_Witness ==
    /\ last_op.proc = "inv2" /\ last_op.status = "ok" /\ last_op.name = "make_user_solo"
    /\ pc["inv1"] = "ready"
    /\ "chanA" \in DOMAIN joined_users["inv1"]
    /\ joined_users["inv1"]["chanA"].next_group_id = 2
    /\ \E id \in DOMAIN joined_users["inv1"]["chanA"].groups :
          joined_users["inv1"]["chanA"].groups[id].members = {1, 2}
    /\ db_group_sets # {}
    /\ \A x, y \in db_group_sets : x.group_id = y.group_id => x = y

\* C9: a call whose storage step fails returns an error and leaves the
\* in-memory entries and group view and the persisted rows as they were; the
\* in-memory group view is replaced only by a commit that succeeded.
C9_FailureChangesNothing ==
    [][/\ last_op'.status = "err" =>
             /\ joined_users' = joined_users
             /\ entries' = entries
             /\ db_group_sets' = db_group_sets
             /\ db_memory' = db_memory
       /\ \A p \in Procs :
             (pc[p] # "none" /\ pc'[p] # "none" /\ joined_users'[p] # joined_users[p]) =>
                 /\ pc[p] = "commit"
                 /\ last_op'.status = "ok"
                 /\ db_group_sets' = save_group_sets(joined_users'[p])]_vars

C9_Witness ==
    /\ last_op.status = "err" /\ last_op.name = "make_user_solo"
    /\ pc["inv1"] = "ready"
    /\ db_group_sets # {}
    /\ db_memory # <<>>
    /\ entries["inv1"] # <<>>
    /\ "chanA" \in DOMAIN joined_users["inv1"]

\* C10: after join_users(u1, u2, channel) returned Ok, get_joined_users of u1
\* and of u2 are equal, contain both users and are the union of the groups the
\* two users had in the relation the transaction loaded; a store constructed
\* afterwards reports the same joined users.
C10_JoinUnitesGroups ==
    [][\A p \in Procs :
          (pc[p] = "commit" /\ pc'[p] = "ready" /\ last_op'.status = "ok"
             /\ last_op'.name = "join_users") =>
             LET op == tx[p].op
                 u1 == op.users[1]
                 u2 == op.users[2]
                 r1 == get_joined_users(joined_users'[p], u1, op.receiver)
                 r2 == get_joined_users(joined_users'[p], u2, op.receiver)
                 Before(gs, u) ==
                     LET b == get_joined_users(gs, u, op.receiver)
                     IN  IF b.ok THEN {b.users[i] : i \in 1..Len(b.users)} ELSE {u}
             IN  /\ r1.ok /\ r2.ok
                 /\ r1.users = r2.users
                 /\ \E gs \in load_group_sets(db_group_sets, op.now) :
                        r1.users = sort(Before(gs, u1) \cup Before(gs, u2))
                 /\ \A gs \in load_group_sets(db_group_sets', clock') :
                        get_joined_users(gs, u1, op.receiver) = r1]_vars

\* C11: after make_user_solo(u, channel) returned Ok, get_joined_users of u is
\* [u], every other former member's joined users are the former group minus u
\* (former: in the relation the transaction loaded), and a store constructed
\* afterwards reports the same for u and for the former members.
C11_SoloSeparatesUser ==
    [][\A p \in Procs :
          (pc[p] = "commit" /\ pc'[p] = "ready" /\ last_op'.status = "ok"
             /\ last_op'.name = "make_user_solo") =>
             LET op == tx[p].op
                 u == op.users[1]
                 Former(gs) ==
                     LET b == get_joined_users(gs, u, op.receiver)
                     IN  IF b.ok THEN {b.users[i] : i \in 1..Len(b.users)} ELSE {u}
             IN  /\ get_joined_users(joined_users'[p], u, op.receiver) =
                        [ok |-> TRUE, users |-> <<u>>]
                 /\ \E gs \in load_group_sets(db_group_sets, op.now) :
                        \A v \in Former(gs) \ {u} :
                            get_joined_users(joined_users'[p], v, op.receiver) =
                                [ok |-> TRUE, users |-> sort(Former(gs) \ {u})]
                 /\ \A gs \in load_group_sets(db_group_sets', clock') :
                        \A v \in Users :
                            get_joined_users(gs, v, op.receiver) =
                                get_joined_users(joined_users'[p], v, op.receiver)]_vars

\* C12: remove_user(u), for a user u that belongs to a group, leaves u as the
\* only member of a group with a new id, u is no member of the former group,
\* and the remaining former members still share one group (the former group,
\* which is deleted only if u was its last member).
C12_RemoveUserCreatesSingleton ==
    [][\A u \in Users :
          (RemoveUser(u) /\ find_group_some(group_set, u)) =>
             LET old_id == find_group(group_set, u)
                 former == group_set.groups[old_id].members
                 new_id == find_group(group_set', u)
             IN  /\ find_group_some(group_set', u)
                 /\ new_id # old_id
                 /\ new_id \in DOMAIN group_set'.groups
                 /\ group_set'.groups[new_id].members = {u}
                 /\ old_id \in DOMAIN group_set'.groups <=> former # {u}
                 /\ former # {u} =>
                        /\ group_set'.groups[old_id].members = former \ {u}
                        /\ \A v \in former \ {u} : find_group(group_set', v) = old_id
                 /\ \A id \in DOMAIN group_set'.groups \ {new_id} :
                        u \notin group_set'.groups[id].members]_vars

C12_Witness ==
    /\ last_op.name = "remove_user"
    /\ Len(last_op.users) = 3
    /\ LET u == last_op.users[1]
           v == last_op.users[2]
           w == last_op.users[3]
       IN  /\ group_set.groups[find_group(group_set, u)].members = {u}
           /\ find_group(group_set, v) = find_group(group_set, w)
           /\ find_group(group_set, v) # find_group(group_set, u)

\* C13: from_maps is idempotent on valid input: when the index map and the
\* group map given to it satisfy the four invariants, the result has the same
\* index and the same groups (members and last_modified), and users that
\* shared a group in the input share one in the output.
ValidMaps ==
    FourInvariants([user_to_group |-> maps.user_to_group, groups |-> maps.groups,
                    next_group_id |-> USIZE_MAX])

C13_FromMapsIdempotent ==
    (last_op.name = "from_maps" /\ ValidMaps) =>
        /\ group_set.user_to_group = maps.user_to_group
        /\ group_set.groups = maps.groups
        /\ \A u, v \in DOMAIN maps.user_to_group :
               maps.user_to_group[u] = maps.user_to_group[v] =>
                   /\ find_group_some(group_set, u) /\ find_group_some(group_set, v)
                   /\ find_group(group_set, u) = find_group(group_set, v)

C13_Witness ==
    /\ last_op.name = "from_maps"
    /\ ValidMaps
    /\ DOMAIN maps.groups = {1}
    /\ maps.groups[1].members = FmUsers
    /\ group_set.groups = maps.groups

\* C14: from_maps is total: it returns a GroupSets for every input, also for
\* group ids at the top of the integer range, and the next group id is one
\* past the maximum surviving id, or zero when no group survives.
C14_FromMapsTotal ==
    last_op.name = "from_maps" =>
        /\ ~panicked
        /\ group_set.next_group_id =
              IF DOMAIN group_set.groups = {} THEN 0
              ELSE MaxOf(DOMAIN group_set.groups) + 1

\* C15: a persisted group whose last_modified is older than the retention
\* window at construction is absent from the loaded store (find_group of each
\* former member is none and get_joined_users is [u]), while a group of the
\* same channel inside the window keeps all its members joined. Persisted
\* groups have two or more members (a singleton is not a persisted group).
PersistedMembers(receiver, group_id) ==
    {row.user_name : row \in {x \in db_group_sets :
                                x.receiver = receiver /\ x.group_id = group_id}}

C16_ClearRemovesGroupHistory ==
    [][\A p \in Procs :
          (last_op'.name = "clear_history_for_joined_users" /\ last_op'.status = "ok"
             /\ last_op'.proc = p) =>
             LET u == last_op'.users[1]
                 r == last_op'.receiver
                 j == get_joined_users(joined_users[p], u, r)
                 joined == {j.users[i] : i \in 1..Len(j.users)}
             IN  /\ \A v \in Users, r2 \in Receivers :
                        user_history(entries'[p], v, r2) =
                            IF v \in joined /\ r2 = r
                            THEN <<>>
                            ELSE user_history(entries[p], v, r2)
                 /\ db_memory' = SelectSeq(db_memory,
                        LAMBDA row : ~(row.user \in joined /\ row.receiver = r))
                 /\ \A v \in Users, r2 \in Receivers :
                        user_history(load_history(db_memory', clock'), v, r2) =
                            user_history(entries'[p], v, r2)]_vars

\* C17: at construction at time now, every persisted entry older than now
\* minus MEMORY_RETENTION is absent from user_history of its user and channel,
\* and every entry newer than that cutoff is present (up to the count cap).
FreshRows(user) ==
    SelectSeq(db_memory,
              LAMBDA row : row.user = user /\ row.timestamp > clock - MEMORY_RETENTION)

C17_OldEntriesAbsent ==
    \A p \in Procs : pc[p] = "ready" =>
        \A user \in 1..2, receiver \in Receivers :
            LET h == user_history(entries[p], user, receiver)
            IN  /\ \A i \in 1..Len(h) : ~(h[i].timestamp < clock - MEMORY_RETENTION)
                /\ Len(FreshRows(user)) <= MEMORY_MAX_MESSAGES =>
                       \A k \in 1..Len(db_memory) :
                           (/\ db_memory[k].user = user
                            /\ db_memory[k].receiver = receiver
                            /\ db_memory[k].timestamp > clock - MEMORY_RETENTION) =>
                               \E i \in 1..Len(h) : h[i] = EntryOf(db_memory[k])

C17_Witness ==
    /\ pc["inv1"] = "ready"
    /\ Len(db_memory) = 2
    /\ \A k \in 1..2 : db_memory[k].user = 1 /\ db_memory[k].receiver = "chanA"
    /\ db_memory[1].timestamp = clock - MEMORY_RETENTION - 1
    /\ db_memory[2].timestamp = clock - MEMORY_RETENTION + 1
    /\ user_history(entries["inv1"], 1, "chanA") = <<EntryOf(db_memory[2])>>

\* C18: at construction, after age pruning, a user with more entries than
\* MEMORY_MAX_MESSAGES keeps exactly the MEMORY_MAX_MESSAGES most recent ones
\* in their order (of 25 entries the oldest survivor is the 6th appended); a
\* user with at most that many keeps all of them.
C18_CapKeepsMostRecent ==
    \A p \in Procs : pc[p] = "ready" =>
        \A user \in 1..2 :
            LET fresh == [i \in 1..Len(FreshRows(user)) |-> EntryOf(FreshRows(user)[i])]
                n == Len(fresh)
                kept == IF user \in DOMAIN entries[p] THEN entries[p][user] ELSE <<>>
            IN  kept = IF n > MEMORY_MAX_MESSAGES
                       THEN SubSeq(fresh, n - MEMORY_MAX_MESSAGES + 1, n)
                       ELSE fresh

C18_Witness ==
    /\ pc["inv1"] = "ready"
    /\ Len(db_memory) = MEMORY_MAX_MESSAGES + 5
    /\ \A k \in 1..Len(db_memory) : db_memory[k].timestamp = clock
    /\ 1 \in DOMAIN entries["inv1"]
    /\ Len(entries["inv1"][1]) = MEMORY_MAX_MESSAGES
    /\ entries["inv1"][1][1].message = 6
    /\ entries["inv1"][1][MEMORY_MAX_MESSAGES].message = MEMORY_MAX_MESSAGES + 5

\* C19: union is symmetric in connectivity: from any starting GroupSets,
\* union(a, b) and union(b, a) put the same pairs of users into one group,
\* although the surviving group id may differ.
SamePartition(g, h) ==
    /\ DOMAIN g.user_to_group = DOMAIN h.user_to_group
    /\ \A u, v \in DOMAIN g.user_to_group :
          (find_group(g, u) = find_group(g, v)) <=> (find_group(h, u) = find_group(h, v))
    /\ {g.groups[id].members : id \in DOMAIN g.groups} =
          {h.groups[id].members : id \in DOMAIN h.groups}

C19_UnionSymmetric ==
    last_op.name = "union_ab" =>
        LET swapped == union(maps.start, maps.users[2], maps.users[1], clock)
        IN  /\ last_op.status = "ok"
            /\ swapped.ok
            /\ SamePartition(group_set, swapped.gs)

C19_Witness ==
    /\ last_op.name = "union_ab"
    /\ maps.users[1] # maps.users[2]
    /\ find_group_some(maps.start, maps.users[1])
    /\ find_group_some(maps.start, maps.users[2])
    /\ Cardinality(get_group_members(maps.start, maps.users[1]).members) = 2
    /\ Cardinality(get_group_members(maps.start, maps.users[2]).members) = 2
    /\ find_group(maps.start, maps.users[1]) # find_group(maps.start, maps.users[2])
    /\ find_group(group_set, maps.users[1]) = find_group(maps.start, maps.users[1])
    /\ Cardinality(get_group_members(group_set, maps.users[1]).members) = 4

\* C20: union is transitive: after union(a, b) followed by union(b, c), from
\* any starting GroupSets and for any users a, b, c, find_group(a) equals
\* find_group(c); the users unioned are all in one group, and the users not
\* unioned with them stay in their other groups.
C20_UnionTransitive ==
    last_op.name = "union_bc" =>
        LET a == maps.users[1]
            b == maps.users[2]
            c == maps.users[3]
            united == UNION {get_group_members(maps.start, u).members : u \in {a, b, c}}
        IN  /\ last_op.status = "ok"
            /\ find_group_some(group_set, a) /\ find_group_some(group_set, c)
            /\ find_group(group_set, a) = find_group(group_set, c)
            /\ find_group(group_set, a) = find_group(group_set, b)
            /\ get_group_members(group_set, a) = [ok |-> TRUE, members |-> united]
            /\ \A w \in DOMAIN maps.start.user_to_group \ united :
                   /\ find_group(group_set, w) = find_group(maps.start, w)
                   /\ find_group(group_set, w) # find_group(group_set, a)
                   /\ group_set.groups[find_group(group_set, w)] =
                          maps.start.groups[find_group(maps.start, w)]

C20_Witness ==
    /\ last_op.name = "union_bc"
    /\ Cardinality({maps.users[1], maps.users[2], maps.users[3]}) = 3
    /\ \A u \in {maps.users[1], maps.users[2], maps.users[3]} :
          get_group_members(maps.start, u).members = {u}
    /\ \E w \in DOMAIN maps.start.user_to_group :
          w \notin {maps.users[1], maps.users[2], maps.users[3]}
    /\ Cardinality(get_group_members(group_set, maps.users[1]).members) = 3

\* C21: after any sequence of add_user, union, remove_user and
\* expire_old_groups, for every indexed user u get_group_members(u) contains
\* u, every member returned has the find_group result of u, and the result is
\* the member set stored for u's group; for a user without index entry it is
\* exactly [u].
C21_GroupMembersConsistent ==
    ~panicked =>
        \A u \in Users :
            LET r == get_group_members(group_set, u)
            IN  IF find_group_some(group_set, u)
                THEN /\ r.ok
                     /\ u \in r.members
                     /\ \A m \in r.members :
                            /\ find_group_some(group_set, m)
                            /\ find_group(group_set, m) = find_group(group_set, u)
                     /\ find_group(group_set, u) \in DOMAIN group_set.groups
                     /\ r.members = group_set.groups[find_group(group_set, u)].members
                ELSE r = [ok |-> TRUE, members |-> {u}]

\* C22: user_history(user, channel) returns exactly the in-view entries of the
\* user in that channel, in chronological (append) order, after any sequence
\* of add_to_history, clear and reload; a store constructed now from the file
\* returns the entries still within retention in the same order.
InViewCount(ents, user, receiver) ==
    IF user \in DOMAIN ents
    THEN Cardinality({i \in 1..Len(ents[user]) : ents[user][i].receiver = receiver})
    ELSE 0

C22_HistoryChronological ==
    \A p \in Procs : pc[p] = "ready" =>
        \A user \in StoreUsers, receiver \in Receivers :
            LET h == user_history(entries[p], user, receiver)
                reloaded == user_history(load_history(db_memory, clock), user, receiver)
            IN  /\ \A i \in 1..Len(h) :
                       /\ h[i].receiver = receiver
                       /\ \E k \in 1..Len(entries[p][user]) : entries[p][user][k] = h[i]
                /\ Len(h) = InViewCount(entries[p], user, receiver)
                /\ \A i, j \in 1..Len(h) : i < j => h[i].timestamp <= h[j].timestamp
                /\ \A i, j \in 1..Len(h) : i < j => h[i].message < h[j].message
                /\ reloaded = SelectSeq(h, LAMBDA e : e.timestamp > clock - MEMORY_RETENTION)

C22_Witness ==
    /\ pc["inv1"] = "ready"
    /\ last_op.name = "new_from_path"
    /\ Len(db_memory) = 3
    /\ \A k \in 1..3 : db_memory[k].user = 1
    /\ db_memory[1].receiver = "chanA"
    /\ db_memory[2].receiver = "chanB"
    /\ db_memory[3].receiver = "chanA"
    /\ db_memory[1].timestamp < db_memory[3].timestamp
    /\ user_history(entries["inv1"], 1, "chanA") =
          <<EntryOf(db_memory[1]), EntryOf(db_memory[3])>>

\* C23: a Join command that returns Ok leaves get_joined_users(sender, channel)
\* equal to the sender, every listed user and every user grouped before the
\* command with any of them, sorted; the reply lists the same users without
\* the sender.
C23_JoinCommandUnitesAll ==
    [][(last_op'.name = "join" /\ last_op'.status = "ok" /\ pc' = pc
          /\ lock = "none" /\ lock' = "none") =>
          LET p == last_op'.proc
              sender == Head(last_op'.users)
              named == {last_op'.users[i] : i \in 1..Len(last_op'.users)}
              Before(gs, u) ==
                  LET b == get_group_members(entry_or_default(gs, last_op'.receiver), u)
                  IN  IF b.ok THEN b.members ELSE {u}
          IN  \E gs \in load_group_sets(db_group_sets, clock) :
                 LET all == named \cup UNION {Before(gs, u) : u \in named}
                 IN  /\ get_joined_users(joined_users'[p], sender, last_op'.receiver) =
                            [ok |-> TRUE, users |-> sort(all)]
                     /\ last_op'.reply = sort(all \ {sender})]_vars

\* a Join command naming two different users has also brought in a user of an
\* earlier group
C23_Witness ==
    /\ last_op.name = "join"
    /\ last_op.status = "ok"
    /\ Len(last_op.users) = 3
    /\ last_op.users[2] # last_op.users[3]
    /\ \E i \in 1..Len(last_op.reply) :
          \A j \in 1..3 : last_op.reply[i] # last_op.users[j]

\* user is unknown to g, or indexed to a group of g that lists it
InGroupOrNew(g, user) ==
    user \in DOMAIN g.user_to_group =>
        /\ g.user_to_group[user] \in DOMAIN g.groups
        /\ user \in g.groups[g.user_to_group[user]].members

\* the id of the group of user1 and of user2 when union(user1, user2) has
\* ensured both: an unknown user receives the next free id
IdAtUnion(g, user1, user2, user) ==
    IF user \in DOMAIN g.user_to_group
    THEN g.user_to_group[user]
    ELSE IF user = user1 \/ user1 \in DOMAIN g.user_to_group
    THEN g.next_group_id
    ELSE g.next_group_id + 1

MembersAtUnion(g, user) ==
    IF user \in DOMAIN g.user_to_group
    THEN g.groups[g.user_to_group[user]].members
    ELSE {user}

\* C24: union(u1, u2) on users in different groups keeps the id of u1's group,
\* deletes the id of u2's group, re-points every member of u2's group to u1's
\* id, makes the surviving member set the union of both, sets the survivor's
\* last_modified to now and leaves every other group as it was.
C24_UnionMergesIntoFirst ==
    [][\A u1, u2 \in Users :
          LET id1 == IdAtUnion(group_set, u1, u2, u1)
              id2 == IdAtUnion(group_set, u1, u2, u2)
              others == DOMAIN group_set.groups \ {id1, id2}
          IN  (Union(u1, u2) /\ InGroupOrNew(group_set, u1)
                 /\ InGroupOrNew(group_set, u2) /\ id1 # id2) =>
                 /\ ~panicked'
                 /\ id1 \in DOMAIN group_set'.groups
                 /\ id2 \notin DOMAIN group_set'.groups
                 /\ \A m \in MembersAtUnion(group_set, u2) :
                        /\ m \in DOMAIN group_set'.user_to_group
                        /\ group_set'.user_to_group[m] = id1
                 /\ group_set'.groups[id1].members =
                        MembersAtUnion(group_set, u1) \cup MembersAtUnion(group_set, u2)
                 /\ group_set'.groups[id1].last_modified = clock
                 /\ DOMAIN group_set'.groups = others \cup {id1}
                 /\ \A id \in others : group_set'.groups[id] = group_set.groups[id]
                 /\ \A u \in DOMAIN group_set.user_to_group :
                        u \notin MembersAtUnion(group_set, u2) =>
                            group_set'.user_to_group[u] = group_set.user_to_group[u]]_vars

\* a union has just merged two users into a group refreshed at a later time
\* than a group that stayed as it was
C24_Witness ==
    /\ last_op.name = "union"
    /\ last_op.status = "ok"
    /\ last_op.users[1] # last_op.users[2]
    /\ last_op.now = clock
    /\ LET id1 == group_set.user_to_group[last_op.users[1]]
       IN  /\ group_set.user_to_group[last_op.users[2]] = id1
           /\ group_set.groups[id1].last_modified = clock
           /\ \E id \in DOMAIN group_set.groups :
                 id # id1 /\ group_set.groups[id].last_modified < clock

\* C25: union(u1, u2) on two users already in the same group changes nothing:
\* the index, every member set, every last_modified and next_group_id.
C25_UnionSameGroupNoOp ==
    [][\A u1, u2 \in Users :
          (Union(u1, u2) /\ u1 \in DOMAIN group_set.user_to_group
             /\ u2 \in DOMAIN group_set.user_to_group
             /\ InGroupOrNew(group_set, u1) /\ InGroupOrNew(group_set, u2)
             /\ group_set.user_to_group[u1] = group_set.user_to_group[u2]) =>
             /\ ~panicked'
             /\ group_set' = group_set]_vars

\* a union of two different users of one group was called after the group's
\* last change
C25_Witness ==
    /\ last_op.name = "union"
    /\ last_op.status = "ok"
    /\ last_op.users[1] # last_op.users[2]
    /\ last_op.now = clock
    /\ LET id1 == group_set.user_to_group[last_op.users[1]]
       IN  /\ group_set.user_to_group[last_op.users[2]] = id1
           /\ group_set.groups[id1].last_modified < clock

\* C26: join_users(_, _, A) and make_user_solo(_, A) leave get_joined_users(u, B)
\* unchanged for every user u and every channel B other than A.
C26_ChannelsIndependent ==
    [][\A p \in Procs :
          (pc[p] = "commit" /\ pc'[p] = "ready" /\ last_op'.status = "ok") =>
             \A receiver \in Receivers \ {tx[p].op.receiver}, u \in StoreUsers :
                 get_joined_users(joined_users'[p], u, receiver) =
                     get_joined_users(joined_users[p], u, receiver)]_vars

\* the same with the calls left out that abort before or after the step
C26_ChannelsIndependentUnlessAbort ==
    [][\A p \in Procs :
          (pc[p] = "commit" /\ pc'[p] = "ready" /\ last_op'.status = "ok") =>
             \A receiver \in Receivers \ {tx[p].op.receiver}, u \in StoreUsers :
                 LET before == get_joined_users(joined_users[p], u, receiver)
                     after == get_joined_users(joined_users'[p], u, receiver)
                 IN  (before.ok /\ after.ok) => after = before]_vars

\* C27: constructing a store changes no row of the file, whatever the view
\* leaves out; entry rows are removed only by clear_history_for_joined_users
\* and group rows change only when join_users or make_user_solo commits, so a
\* store constructed next with no mutation in between reads the same rows.
C27_ConstructionKeepsStorage ==
    [][/\ (\E p \in Procs : pc[p] = "none" /\ pc'[p] = "ready") =>
             /\ db_memory' = db_memory
             /\ db_group_sets' = db_group_sets
       /\ (\E p \in Procs : pc[p] = "ready" /\ pc'[p] = "none") =>
             /\ db_memory' = db_memory
             /\ db_group_sets' = db_group_sets
       /\ db_memory' # db_memory =>
             /\ last_op'.name = "clear_history_for_joined_users"
             /\ last_op'.status = "ok"
       /\ db_group_sets' # db_group_sets =>
             /\ \E p \in Procs : pc[p] = "commit"
             /\ last_op'.name \in {"join_users", "make_user_solo"}
             /\ last_op'.status = "ok"]_vars

\* a store has just been constructed from a file that holds an expired entry
\* and more fresh entries than the cap; its view holds fewer entries than the
\* file
C27_Witness ==
    /\ last_op.name = "new_from_path"
    /\ last_op.status = "ok"
    /\ pc["inv1"] = "ready"
    /\ \E k \in 1..Len(db_memory) : db_memory[k].timestamp < clock - MEMORY_RETENTION
    /\ Len(FreshRows(1)) > MEMORY_MAX_MESSAGES
    /\ Len(entries["inv1"][1]) = MEMORY_MAX_MESSAGES

\* the groups of a view as pairs of member set and last_modified
GroupsOf(view) ==
    UNION {{[receiver |-> r, members |-> view[r].groups[id].members,
             last_modified |-> view[r].groups[id].last_modified] :
               id \in DOMAIN view[r].groups} : r \in DOMAIN view}

Live(last_modified) == last_modified > clock - USER_GROUP_RETENTION

\* a committing join_users whose two users the file already holds in one group
JoinOfJoined(p) ==
    /\ pc[p] = "commit"
    /\ pc'[p] = "ready"
    /\ last_op'.status = "ok"
    /\ last_op'.name = "join_users"
    /\ \E gs \in load_group_sets(db_group_sets, clock) :
          LET g == entry_or_default(gs, tx[p].op.receiver)
              u1 == tx[p].op.users[1]
              u2 == tx[p].op.users[2]
          IN  /\ u1 \in DOMAIN g.user_to_group
              /\ u2 \in DOMAIN g.user_to_group
              /\ g.user_to_group[u1] = g.user_to_group[u2]
              /\ g.user_to_group[u1] \in DOMAIN g.groups

\* C28: add_to_history, clear_history_for_joined_users, user_history,
\* get_joined_users and a join_users of two already-joined users leave every
\* group's membership and last_modified unchanged in memory and in the file
\* (a group past its retention time may be dropped by the reload).
C28_ActivityKeepsGroups ==
    [][/\ last_op'.name \in {"add_to_history", "clear_history_for_joined_users",
                             "user_history", "get_joined_users"} =>
             /\ joined_users' = joined_users
             /\ db_group_sets' = db_group_sets
       /\ \A p \in Procs : JoinOfJoined(p) =>
             /\ GroupsOf(joined_users'[p]) \subseteq GroupsOf(joined_users[p])
             /\ \A g \in GroupsOf(joined_users[p]) :
                    Live(g.last_modified) => g \in GroupsOf(joined_users'[p])
             /\ db_group_sets' \subseteq db_group_sets
             /\ \A row \in db_group_sets :
                    Live(row.last_modified) => row \in db_group_sets']_vars

\* the same with the one-member groups left out
C28_ActivityKeepsPluralGroups ==
    [][/\ last_op'.name \in {"add_to_history", "clear_history_for_joined_users",
                             "user_history", "get_joined_users"} =>
             /\ joined_users' = joined_users
             /\ db_group_sets' = db_group_sets
       /\ \A p \in Procs : JoinOfJoined(p) =>
             /\ GroupsOf(joined_users'[p]) \subseteq GroupsOf(joined_users[p])
             /\ \A g \in GroupsOf(joined_users[p]) :
                    (Live(g.last_modified) /\ Cardinality(g.members) > 1) =>
                        g \in GroupsOf(joined_users'[p])
             /\ db_group_sets' \subseteq db_group_sets
             /\ \A row \in db_group_sets :
                    (/\ Live(row.last_modified)
                     /\ Cardinality(PersistedMembers(row.receiver, row.group_id)) > 1) =>
                        row \in db_group_sets']_vars

\* the number of fresh rows of `user` in channels other than `receiver` that
\* follow row k of the file
NewerElsewhere(k, user, receiver) ==
    Cardinality({j \in (k + 1)..Len(db_memory) :
                   /\ db_memory[j].user = user
                   /\ db_memory[j].receiver # receiver
                   /\ db_memory[j].timestamp > clock - MEMORY_RETENTION
                   /\ db_memory[j].timestamp >= db_memory[k].timestamp})

\* C29: directly after construction each user has at most MEMORY_MAX_MESSAGES
\* entries in view, counted over all channels together; a fresh entry of one
\* channel is absent from user_history(u, channel) when u has that many or more
\* newer entries in other channels.
C29_CapSpansChannels ==
    \A p \in Procs :
        (pc[p] = "ready" /\ last_op.name = "new_from_path" /\ last_op.status = "ok") =>
            \A user \in Users :
                /\ user \in DOMAIN entries[p] =>
                       Len(entries[p][user]) <= MEMORY_MAX_MESSAGES
                /\ \A k \in 1..Len(db_memory) :
                       LET row == db_memory[k]
                           h == user_history(entries[p], user, row.receiver)
                       IN  (/\ row.user = user
                            /\ row.timestamp > clock - MEMORY_RETENTION
                            /\ NewerElsewhere(k, user, row.receiver) >= MEMORY_MAX_MESSAGES) =>
                               \A i \in 1..Len(h) : h[i] # EntryOf(row)

\* a store was constructed from a file with one fresh entry in chanB followed
\* by MEMORY_MAX_MESSAGES entries in chanA: its history of chanB is empty
C29_Witness ==
    /\ pc["inv1"] = "ready"
    /\ last_op.name = "new_from_path"
    /\ last_op.status = "ok"
    /\ Len(db_memory) = MEMORY_MAX_MESSAGES + 1
    /\ db_memory[1].receiver = "chanB"
    /\ db_memory[1].timestamp > clock - MEMORY_RETENTION
    /\ \A k \in 2..Len(db_memory) : db_memory[k].receiver = "chanA" /\ db_memory[k].user = 1
    /\ db_memory[1].user = 1
    /\ user_history(entries["inv1"], 1, "chanB") = <<>>
    /\ Len(user_history(entries["inv1"], 1, "chanA")) = MEMORY_MAX_MESSAGES

\* C30: clear_history_for_joined_users resolves the group from the caller's
\* in-memory view and does not re-read the file: a successful clear for u by
\* invocation p deletes the rows of exactly the users that p's view joins with
\* u, whatever another invocation has committed since, and leaves p's view of
\* the groups, hence p's get_joined_users(u), as it was.
C30_ClearUsesCallersView ==
    [][\A p \in Procs :
          (/\ pc[p] = "ready"
           /\ last_op'.name = "clear_history_for_joined_users"
           /\ last_op'.status = "ok"
           /\ last_op'.proc = p) =>
             LET u == last_op'.users[1]
                 r == last_op'.receiver
                 joined == get_joined_users(joined_users[p], u, r)
                 users == {joined.users[i] : i \in 1..Len(joined.users)}
             IN  /\ joined.ok
                 /\ db_memory' = SelectSeq(db_memory,
                        LAMBDA row : row.receiver # r \/ row.user \notin users)
                 /\ joined_users'[p] = joined_users[p]
                 /\ get_joined_users(joined_users'[p], u, r) = joined]_vars

\* inv2 has committed a join of users 1 and 2 after inv1 constructed its
\* store; inv1 has cleared for user 1: the entry of user 1 is gone, the entry
\* of user 2 is still in the file and inv1 still sees user 1 alone
C30_Witness ==
    /\ last_op = Op("clear_history_for_joined_users", "inv1", <<1>>, "chanA", 0, "ok")
    /\ pc["inv1"] = "ready"
    /\ PersistedMembers("chanA", 0) = {1, 2}
    /\ get_joined_users(joined_users["inv1"], 1, "chanA") = [ok |-> TRUE, users |-> <<1>>]
    /\ pc["inv2"] = "ready"
    /\ get_joined_users(joined_users["inv2"], 1, "chanA") = [ok |-> TRUE, users |-> <<1, 2>>]
    /\ Len(db_memory) = 1
    /\ db_memory[1].user = 2

====
